---- MODULE Spec2Model ----
(***************************************************************************)
(* Model of picky's interactive picker (src/src/lib.rs): the terminal      *)
(* session of `run`, the control loop of `handle_events`, its query cache, *)
(* the background pre-warming of single-character queries and the ranking  *)
(* heap fed by `score_items` / `rank_items`.                               *)
(*                                                                         *)
(* Conventions: a string is a sequence of one-character strings; an item   *)
(* is named by its position in the item store (the Arc<T> handle);         *)
(* Option<x> is <<>> for None and <<x>> for Some(x); a Vec or a            *)
(* BinaryHeap's backing vector is a 1-based sequence, so the vector slot   *)
(* k of the source is position k+1 here.                                   *)
(***************************************************************************)
EXTENDS Integers, Sequences, FiniteSets, TLC

\* ------------------------------------------------------------------ bounds
\* longest query the user types (the source has no limit)
MaxLen == 1
\* largest window height passed to run
MaxHeight == 3

\* ---------------------------------------------------------- input domains
\* characters the user can type
Chars == {"a", "b"}

\* the pre-warm alphabet of handle_events, shortened to the typed characters
Alphabet == <<"a", "b">>

StoreA == << <<"b","b","a">>, <<"b","a">>, <<"a">>, <<"b">> >>
StoreB == << <<"a","b">>, <<"a">>, <<"b","a","b">>, <<"b">> >>
StoreC == << <<"b","a">> >>
StoreD == << <<"a">> >>
Stores == {StoreA, StoreB, StoreC, StoreD}

\* rows of the terminal before the session
TermRows == MaxHeight + 4

VARIABLES
    items,             \* the item store handed to run
    height,            \* run's height argument = prompt.height
    resize,            \* run's resize argument
    raw,               \* terminal: raw mode enabled
    mouse,             \* terminal: mouse capture enabled
    rows,              \* terminal: viewport rows
    pc,                \* position in run
    outcome,           \* "running", "ok" (run returned Ok) or "err"
    result,            \* the Option<T> handle_events returned
    text,              \* prompt.text
    selection,         \* prompt.selection
    list,              \* the Vec<RankedItem> built by run, re-scored in place
    ranked,            \* backing vector of the BinaryHeap `ranked`
    cache,             \* HashMap<String, Vec<RankedItem>>
    background_cache,  \* Vec<char> popped by the idle branch
    rendered,          \* the slice handed to the latest render call
    exitEvent,         \* the event that ended the loop, "none" before
    scoredNow,         \* queries handed to score_items by the latest step
    didRender,         \* the latest step called render
    np,                \* the same loop fed the same keys without idle ticks
    paired,            \* np is maintained
    pending            \* score_items: the items whose task has not run yet

termVars == <<raw, mouse, rows>>
\* what no step of run changes: its arguments, and the task set that is
\* empty outside a scoring pass
cfgVars == <<items, height, resize, paired, pending>>
loopVars == <<text, selection, list, ranked, cache, background_cache,
              rendered, np>>
vars == <<items, height, resize, raw, mouse, rows, pc, outcome, result, text,
          selection, list, ranked, cache, background_cache, rendered,
          exitEvent, scoredNow, didRender, np, paired, pending>>

\* --------------------------------------------------------------- helpers
Min(a, b) == IF a < b THEN a ELSE b

\* iterator .take(n) followed by collect
Take(s, n) == SubSeq(s, 1, Min(n, Len(s)))

\* Vec::pop / String::pop: drops the last element, a no-op when empty
Pop(s) == IF Len(s) = 0 THEN s ELSE SubSeq(s, 1, Len(s) - 1)

\* Rev without the reversal
Rev_Forgotten(s) == s

\* .rev().collect()
RECURSIVE Rev(_)
Rev(s) == IF Len(s) = 0 THEN <<>> ELSE Append(Rev(Tail(s)), Head(s))

\* ---------------------------------------------------------------- Scorer
\* first position >= from where text holds c, 0 when there is none
FirstAt(t, c, from) ==
    LET S == {i \in from..Len(t) : t[i] = c}
    IN  IF S = {} THEN 0 ELSE CHOOSE i \in S : \A j \in S : i <= j

\* leftmost positions matching q as a subsequence of t; <<>> when q is not one
RECURSIVE Greedy(_, _, _, _)
Greedy(t, q, from, acc) ==
    IF Len(q) = 0 THEN acc
    ELSE LET i == FirstAt(t, Head(q), from)
         IN  IF i = 0 THEN <<>> ELSE Greedy(t, Tail(q), i + 1, Append(acc, i))

\* matcher.fuzzy_indices(text, query) of the external SkimMatcherV2, a pure
\* function of its two arguments: None when query is no subsequence of
\* text, else Some((score, indices)); the score grows with the number of
\* matched characters and drops with the offset of the first one and with
\* the gaps between them.
fuzzy_indices(t, q) ==
    LET ind == Greedy(t, q, 1, <<>>)
    IN  IF Len(q) = 0 THEN << <<0, {}>> >>
        ELSE IF Len(ind) = 0 THEN <<>>
        ELSE LET gaps == (ind[Len(ind)] - ind[1] + 1) - Len(q)
             IN  << <<10 * Len(q) - (ind[1] - 1) - gaps,
                      {ind[k] : k \in 1..Len(ind)}>> >>

\* ------------------------------------------------------------ RankedItem
\* RankedItem(Arc::new(i), None, Vec::new())
NewRankedItem(i) == [idx |-> i, score |-> <<>>, ind |-> {}]

\* rank without the reset of the score when the query does not match
rank_KeepScore(r, query) ==
    LET res == fuzzy_indices(items[r.idx], query)
    IN  IF Len(res) = 1
        THEN [r EXCEPT !.score = <<res[1][1]>>, !.ind = res[1][2]]
        ELSE r

\* RankedItem::rank
rank(r, query) ==
    LET res == fuzzy_indices(items[r.idx], query)
    IN  IF Len(res) = 1
        THEN [r EXCEPT !.score = <<res[1][1]>>, !.ind = res[1][2]]
        ELSE [r EXCEPT !.score = <<>>]

\* Option<i64> ordering: None is below every Some
OptLe(a, b) ==
    \/ Len(a) = 0
    \/ Len(a) = 1 /\ Len(b) = 1 /\ a[1] <= b[1]

\* `a <= b` on RankedItem: PartialOrd::partial_cmp looks at the score only
Le(a, b) == OptLe(a.score, b.score)

\* score_items: every item of the slice is re-scored in place
score_items(l, query) == [i \in 1..Len(l) |-> rank(l[i], query)]

\* BinaryHeap::sift_up on the backing vector, hole at position pos; the
\* standard library compares with `<=`, which goes through partial_cmp
RECURSIVE sift_up(_, _)
sift_up(h, pos) ==
    IF pos <= 1 THEN h
    ELSE LET parent == pos \div 2
         IN  IF Le(h[pos], h[parent]) THEN h
             ELSE sift_up([h EXCEPT ![pos] = h[parent], ![parent] = h[pos]],
                          parent)

\* BinaryHeap::push
push(h, r) == sift_up(Append(h, r), Len(h) + 1)

\* rank_items: clear the heap, push every scored item with a score
RECURSIVE PushAll(_, _, _)
PushAll(h, scored, i) ==
    IF i > Len(scored) THEN h
    ELSE PushAll(IF Len(scored[i].score) = 1 THEN push(h, scored[i]) ELSE h,
                 scored, i + 1)

rank_items(scored) == PushAll(<<>>, scored, 1)

\* ---------------------------------------------------------------- render
\* the positions of a row that render styles as matched:
\* matched_chars.contains(&i) && to_print.1.is_some()
Highlight(r) == IF Len(r.score) = 1 THEN r.ind ELSE {}

\* what render draws of the slice: per row the item and its styled positions
DrawnRows(w) ==
    [y \in 1..Min(height, Len(w)) |->
        [idx |-> w[y].idx, hl |-> Highlight(w[y])]]

\* ------------------------------------------------------------- the cache
\* HashMap::insert
Insert(c, k, v) == [q \in DOMAIN c \cup {k} |-> IF q = k THEN v ELSE c[q]]

\* cache.contains_key
Cached(c, k) == k \in DOMAIN c

\* ------------------------------------------------------------------- run
\* height + 1 without a header
final_height == height + 1

\* the loop without the idle branch, fed the same keys
NpInit(l) == [list |-> l, ranked |-> <<>>, cache |-> <<>>,
              rendered |-> <<>>, result |-> <<>>]

\* the state when run is entered
InitRun ==
    /\ items \in Stores
    /\ height \in 1..MaxHeight
    /\ resize \in BOOLEAN
    /\ raw = FALSE
    /\ mouse = FALSE
    /\ rows = TermRows
    /\ pc = "start"
    /\ outcome = "running"
    /\ result = <<>>
    /\ text = <<>>
    /\ selection = 0
    /\ list = <<>>
    /\ ranked = <<>>
    /\ cache = <<>>
    /\ background_cache = <<>>
    /\ rendered = <<>>
    /\ exitEvent = "none"
    /\ scoredNow = {}
    /\ didRender = FALSE
    /\ np = NpInit(<<>>)
    /\ pending = {}

Init == InitRun /\ paired = FALSE

\* the session next to the same keys delivered without idle ticks
InitPair == InitRun /\ paired = TRUE

\* a `?` that propagates an Err out of run
Fail ==
    /\ pc' = "returned"
    /\ outcome' = "err"

\* the locals of handle_events (ranked, cache, background_cache) are dropped
\* when it returns
DropLoopLocals ==
    /\ ranked' = <<>>
    /\ cache' = <<>>
    /\ background_cache' = <<>>

\* the locals of run (prompt, list) are dropped when it returns
DropRunLocals ==
    /\ text' = <<>>
    /\ selection' = 0
    /\ list' = <<>>

\* enable_raw_mode()?
EnableRawMode ==
    /\ pc = "start"
    /\ \E ok \in BOOLEAN :
         IF ok
         THEN /\ raw' = TRUE
              /\ pc' = "setup"
              /\ UNCHANGED outcome
         ELSE /\ Fail
              /\ UNCHANGED raw
    /\ UNCHANGED <<mouse, rows, result, exitEvent, scoredNow, didRender>>
    /\ UNCHANGED cfgVars
    /\ UNCHANGED loopVars

\* the points where the set-up of run can fail
SetupFailures == {"none", "size", "capture", "anchor", "setsize"}

\* size()?, position()?, the scroll, EnableMouseCapture .. SavePosition,
\* SetSize when resize is set, then the prompt and the list are built
Setup ==
    /\ pc = "setup"
    /\ \E f \in SetupFailures :
         /\ f = "setsize" => resize
         /\ mouse' = (f \in {"none", "anchor", "setsize"})
         /\ rows' = IF f = "none" /\ resize THEN final_height ELSE rows
         /\ IF f = "none"
            THEN /\ pc' = "render0"
                 /\ list' = [i \in 1..Len(items) |-> NewRankedItem(i)]
                 /\ np' = NpInit([i \in 1..Len(items) |-> NewRankedItem(i)])
                 /\ UNCHANGED outcome
            ELSE /\ Fail
                 /\ UNCHANGED <<list, np>>
    /\ UNCHANGED <<raw, result, text, selection, ranked, cache, rendered,
                   background_cache,
                   exitEvent, scoredNow, didRender>>
    /\ UNCHANGED cfgVars

\* --------------------------------------------------------- handle_events
\* the locals of handle_events are built, then the first render, before the
\* loop
InitialRender ==
    /\ pc = "render0"
    /\ \E ok \in BOOLEAN :
         IF ok
         THEN /\ rendered' = Take(list, height)
              /\ np' = [np EXCEPT !.rendered = Take(np.list, height)]
              /\ didRender' = TRUE
              /\ pc' = "loop"
              /\ background_cache' = Rev(Alphabet)
              /\ UNCHANGED <<outcome, text, selection, list>>
         ELSE /\ Fail
              /\ DropRunLocals
              /\ background_cache' = <<>>
              /\ np' = NpInit(<<>>)
              /\ UNCHANGED <<rendered, didRender>>
    /\ UNCHANGED <<ranked, cache, result, exitEvent, scoredNow>>
    /\ UNCHANGED termVars
    /\ UNCHANGED cfgVars

\* Rerank without the test for the empty query
Rerank_NoEmptyTest(changed, t, l, rk, ch) ==
    IF changed /\ ~Cached(ch, t)
    THEN LET scored == score_items(l, t)
         IN  [list |-> scored, ranked |-> rank_items(scored), scored |-> {t}]
    ELSE [list |-> l, ranked |-> rk, scored |-> {}]

\* Rerank without the test for a cached query
Rerank_NoCacheTest(changed, t, l, rk, ch) ==
    IF changed /\ Len(t) > 0
    THEN LET scored == score_items(l, t)
         IN  [list |-> scored, ranked |-> rank_items(scored), scored |-> {t}]
    ELSE [list |-> l, ranked |-> rk, scored |-> {}]

\* the re-rank condition and the scoring pass it guards
Rerank(changed, t, l, rk, ch) ==
    IF changed /\ Len(t) > 0 /\ ~Cached(ch, t)
    THEN LET scored == score_items(l, t)
         IN  [list |-> scored, ranked |-> rank_items(scored), scored |-> {t}]
    ELSE [list |-> l, ranked |-> rk, scored |-> {}]

\* RenderPath without the look-up of the cache
RenderPath_NoLookup(t, l, rk, ch) ==
    LET to_print == IF Len(t) = 0 THEN Take(l, height) ELSE Take(rk, height)
    IN  [cache |-> Insert(ch, t, to_print), rendered |-> to_print]

\* what the foot of the loop body renders, and the cache it leaves
RenderPath(t, l, rk, ch) ==
    IF Len(t) > 0 /\ Cached(ch, t)
    THEN [cache |-> ch, rendered |-> ch[t]]
    ELSE LET to_print == IF Len(t) = 0 THEN Take(l, height)
                         ELSE Take(rk, height)
         IN  [cache |-> Insert(ch, t, to_print), rendered |-> to_print]

\* KeyCode::Enter: the last of the first selection + 1 entries
EnterResult(t, sel, l, rk) ==
    LET top == IF Len(t) = 0 THEN Take(l, sel + 1) ELSE Take(rk, sel + 1)
    IN  IF Len(top) = 0 THEN <<>> ELSE <<top[Len(top)].idx>>

\* the loop body of a run without idle ticks, for the same event
NpStep(n, t, changed) ==
    LET rr == Rerank(changed, t, n.list, n.ranked, n.cache)
        rp == RenderPath(t, rr.list, rr.ranked, n.cache)
    IN  [n EXCEPT !.list = rr.list, !.ranked = rr.ranked,
                  !.cache = rp.cache, !.rendered = rp.rendered]

\* one turn of the loop for an event that does not leave it: the match arm
\* has produced (t, sel, changed); re-rank, then render (a render that
\* fails is the step LoopFail)
KeyStep(t, sel, changed) ==
    /\ pc = "loop"
    /\ LET rr == Rerank(changed, t, list, ranked, cache)
           rp == RenderPath(t, rr.list, rr.ranked, cache)
       IN  /\ text' = t
           /\ selection' = sel
           /\ scoredNow' = rr.scored
           /\ list' = rr.list
           /\ ranked' = rr.ranked
           /\ cache' = rp.cache
           /\ rendered' = rp.rendered
           /\ didRender' = TRUE
           /\ np' = IF paired THEN NpStep(np, t, changed) ELSE np
    /\ UNCHANGED <<pc, outcome, background_cache, exitEvent, result>>
    /\ UNCHANGED termVars
    /\ UNCHANGED cfgVars

\* KeyUp that stops at row 0
KeyUp_NoWrap ==
    KeyStep(text, IF selection > 0 THEN selection - 1 ELSE 0, FALSE)

KeyUp ==
    KeyStep(text,
            IF selection > 0 THEN selection - 1 ELSE height - 1, FALSE)

KeyDown ==
    KeyStep(text,
            IF selection < height - 1 THEN selection + 1 ELSE 0, FALSE)

KeyBackspace == KeyStep(Pop(text), selection, TRUE)

KeyChar(c) ==
    /\ Len(text) < MaxLen
    /\ KeyStep(Append(text, c), selection, TRUE)

\* Event::Mouse and every other event or key
OtherEvent == KeyStep(text, selection, FALSE)

KeyEnter ==
    /\ pc = "loop"
    /\ result' = EnterResult(text, selection, list, ranked)
    /\ np' = IF paired
             THEN [np EXCEPT !.result =
                       EnterResult(text, selection, np.list, np.ranked),
                             !.ranked = <<>>, !.cache = <<>>]
             ELSE np
    /\ pc' = "cleanup"
    /\ exitEvent' = "Enter"
    /\ scoredNow' = {}
    /\ didRender' = FALSE
    /\ DropLoopLocals
    /\ UNCHANGED <<text, selection, list, rendered, outcome>>
    /\ UNCHANGED termVars
    /\ UNCHANGED cfgVars

KeyEsc ==
    /\ pc = "loop"
    /\ result' = <<>>
    /\ pc' = "cleanup"
    /\ exitEvent' = "Esc"
    /\ scoredNow' = {}
    /\ didRender' = FALSE
    /\ DropLoopLocals
    /\ np' = [np EXCEPT !.ranked = <<>>, !.cache = <<>>]
    /\ UNCHANGED <<text, selection, list, rendered, outcome>>
    /\ UNCHANGED termVars
    /\ UNCHANGED cfgVars

\* the value the idle branch stores for the popped character
Prewarm(l, next) == Take(rank_items(score_items(l, <<next>>)), height)

\* poll returned false: the background cache step, then `continue`
IdleTick ==
    /\ pc = "loop"
    /\ didRender' = FALSE
    /\ IF Len(background_cache) > 0
       THEN LET next == background_cache[Len(background_cache)]
            IN  /\ background_cache' = Pop(background_cache)
                /\ cache' = Insert(cache, <<next>>, Prewarm(list, next))
                /\ scoredNow' = {<<next>>}
       ELSE /\ UNCHANGED <<background_cache, cache>>
            /\ scoredNow' = {}
    /\ UNCHANGED <<text, selection, list, ranked, rendered, np, pc, outcome,
                   result, exitEvent>>
    /\ UNCHANGED termVars
    /\ UNCHANGED cfgVars

\* poll(..)?, read()? or the render(..)? of the turn returns an Err: whatever
\* the turn did before to the locals is dropped with them
LoopFail ==
    /\ pc = "loop"
    /\ Fail
    /\ \E ev \in {"PollErr", "ReadErr", "RenderErr"} : exitEvent' = ev
    /\ scoredNow' = {}
    /\ didRender' = FALSE
    /\ DropLoopLocals
    /\ DropRunLocals
    /\ np' = NpInit(<<>>)
    /\ UNCHANGED <<result, rendered>>
    /\ UNCHANGED termVars
    /\ UNCHANGED cfgVars

\* the points where the clean up of run can fail
CleanupFailures == {"none", "clear", "mouseoff", "rawoff"}

\* CleanupRows without the SetSize(size_cols, size_rows)
CleanupRows_NoSetSize(f) == rows

\* viewport rows after the clean up that failed at f
CleanupRows(f) == IF f = "clear" THEN rows ELSE TermRows

\* mouse capture after the clean up that failed at f
CleanupMouse(f) == IF f \in {"clear", "mouseoff"} THEN mouse ELSE FALSE

\* raw mode after the clean up that failed at f
CleanupRaw(f) == IF f = "none" THEN FALSE ELSE raw

\* handle_events returned Ok: clear the picker, SetSize(size_cols, size_rows),
\* DisableMouseCapture, disable_raw_mode()?, Ok(result)
Cleanup ==
    /\ pc = "cleanup"
    /\ \E f \in CleanupFailures :
         /\ rows' = CleanupRows(f)
         /\ mouse' = CleanupMouse(f)
         /\ raw' = CleanupRaw(f)
         /\ outcome' = IF f = "none" THEN "ok" ELSE "err"
         /\ rendered' = IF f = "clear" THEN rendered ELSE <<>>
    /\ pc' = "returned"
    /\ DropRunLocals
    /\ np' = [NpInit(<<>>) EXCEPT !.result = np.result]
    /\ UNCHANGED <<ranked, cache, background_cache>>
    /\ UNCHANGED <<result, exitEvent, scoredNow, didRender>>
    /\ UNCHANGED cfgVars

Next ==
    \/ EnableRawMode
    \/ Setup
    \/ InitialRender
    \/ KeyUp
    \/ KeyDown
    \/ KeyBackspace
    \/ \E c \in Chars : KeyChar(c)
    \/ OtherEvent
    \/ KeyEnter
    \/ KeyEsc
    \/ IdleTick
    \/ LoopFail
    \/ Cleanup

Spec == Init /\ [][Next]_vars

SpecPair == InitPair /\ [][Next]_vars

\* ------------------------------------------------- one ranking pass, unfolded
\* the non-empty queries of at most MaxLen characters
RECURSIVE QueriesOfLen(_)
QueriesOfLen(n) ==
    IF n = 0 THEN {<<>>}
    ELSE {Append(q, c) : q \in QueriesOfLen(n - 1), c \in Chars}

Queries == UNION {QueriesOfLen(n) : n \in 1..MaxLen}

\* the list as run builds it, before any scoring pass
FreshList == [i \in 1..Len(items) |-> NewRankedItem(i)]

\* the loop at a point where the list and the heap are at rest
InitRank ==
    /\ items \in Stores
    /\ height = 1
    /\ resize = FALSE
    /\ paired = FALSE
    /\ raw = TRUE
    /\ mouse = TRUE
    /\ rows = TermRows
    /\ pc = "ranked"
    /\ outcome = "running"
    /\ result = <<>>
    /\ text = <<>>
    /\ selection = 0
    /\ list = FreshList
    /\ ranked = <<>>
    /\ cache = <<>>
    /\ background_cache = <<>>
    /\ rendered = <<>>
    /\ exitEvent = "none"
    /\ scoredNow = {}
    /\ didRender = FALSE
    /\ np = NpInit(<<>>)
    /\ pending = {}

rankFrame ==
    <<items, height, resize, paired, raw, mouse, rows, outcome, result,
      selection, cache, background_cache, rendered, exitEvent, didRender, np>>

\* score_items is called for q: par_iter_mut hands every item to a task
StartPass(q) ==
    /\ pc = "ranked"
    /\ text' = q
    /\ pending' = 1..Len(list)
    /\ pc' = "scoring"
    /\ scoredNow' = {}
    /\ UNCHANGED <<list, ranked>>
    /\ UNCHANGED rankFrame

\* the task of item i runs item.rank(matcher, query); the tasks complete in
\* any order
ScoreTask(i) ==
    /\ pc = "scoring"
    /\ i \in pending
    /\ list' = [list EXCEPT ![i] = rank(list[i], text)]
    /\ pending' = pending \ {i}
    /\ UNCHANGED <<pc, text, ranked, scoredNow>>
    /\ UNCHANGED rankFrame

\* for_each has joined: rank_items folds the scored list into the heap
RankFold ==
    /\ pc = "scoring"
    /\ pending = {}
    /\ ranked' = rank_items(list)
    /\ pc' = "ranked"
    /\ scoredNow' = {text}
    /\ UNCHANGED <<text, list, pending>>
    /\ UNCHANGED rankFrame

NextRank ==
    \/ \E q \in Queries : StartPass(q)
    \/ \E i \in 1..Len(items) : ScoreTask(i)
    \/ RankFold

SpecRank == InitRank /\ [][NextRank]_vars

\* ------------------------------------- the shared table (model.rs, view.rs)
\* the largest heap a render of the shared-table variant starts from
MaxHeap == 6

\* Row::compute_score: matcher.fuzzy_match on the joined columns, the score of
\* fuzzy_indices without the indices
compute_score(row, query) ==
    LET res == fuzzy_indices(row, query)
    IN  IF Len(res) = 1 THEN <<res[1][1]>> ELSE <<>>

\* `a <= b` on RankedRowIndex: PartialOrd::partial_cmp looks at the score only
RowLe(a, b) == a.score <= b.score

\* BinaryHeap::sift_up on a heap of RankedRowIndex
RECURSIVE row_sift_up(_, _)
row_sift_up(h, pos) ==
    IF pos <= 1 THEN h
    ELSE LET parent == pos \div 2
         IN  IF RowLe(h[pos], h[parent]) THEN h
             ELSE row_sift_up([h EXCEPT ![pos] = h[parent],
                                        ![parent] = h[pos]], parent)

\* BinaryHeap::push on a heap of RankedRowIndex
row_push(h, r) == row_sift_up(Append(h, r), Len(h) + 1)

\* BinaryHeap::sift_down_to_bottom: the hole goes down to a leaf along the
\* greater children (the right one on a tie), then the element sifts up
RECURSIVE sift_down_to_bottom(_, _)
sift_down_to_bottom(h, pos) ==
    LET child == 2 * pos
        end == Len(h)
    IN  IF child > end THEN row_sift_up(h, pos)
        ELSE LET c == IF child + 1 <= end /\ RowLe(h[child], h[child + 1])
                      THEN child + 1 ELSE child
             IN  sift_down_to_bottom([h EXCEPT ![pos] = h[c], ![c] = h[pos]], c)

\* BinaryHeap::pop: the heap left behind; the popped entry is its first one
row_pop(h) ==
    IF Len(h) <= 1 THEN <<>>
    ELSE sift_down_to_bottom([SubSeq(h, 1, Len(h) - 1) EXCEPT ![1] = h[Len(h)]],
                             1)

\* BinaryHeap::extend(&h): every entry of h, in the order of its backing
\* vector, is pushed
RECURSIVE extend(_, _)
extend(h, src) ==
    IF Len(src) = 0 THEN h ELSE extend(row_push(h, Head(src)), Tail(src))

\* the entries Ranker::update collects: one per row with a score, in row order
RECURSIVE ScoredRows(_, _)
ScoredRows(i, query) ==
    IF i > Len(items) THEN <<>>
    ELSE LET sc == compute_score(items[i], query)
         IN  (IF Len(sc) = 1 THEN << [index |-> i, score |-> sc[1]] >> ELSE <<>>)
             \o ScoredRows(i + 1, query)

\* Ranker::update: clear the shared heap, push the collected entries
update(query) == extend(<<>>, ScoredRows(1, query))

\* the loop body of List::render after n of its rows: each row below
\* rows.len() pops the shared heap and prints the entry when there is one
RECURSIVE PopRows(_, _, _)
PopRows(h, n, out) ==
    IF n = 0 THEN [ranked |-> h, rendered |-> out]
    ELSE IF Len(h) = 0 THEN PopRows(h, n - 1, out)
    ELSE PopRows(row_pop(h), n - 1, Append(out, h[1]))

\* the rows of List::render that pop: y < height and y < rows.len()
PopCount == Min(height, Len(items))

\* List::render: clone the heap, pop the rows to print, extend with the clone
ListRender(h) ==
    LET p == PopRows(h, PopCount, <<>>)
    IN  [ranked |-> extend(p.ranked, h), rendered |-> p.rendered]

\* View::new and Table::new: an empty query and an empty heap
InitTable ==
    /\ items \in Stores
    /\ height \in 1..MaxHeight
    /\ resize = FALSE
    /\ paired = FALSE
    /\ raw = TRUE
    /\ mouse = TRUE
    /\ rows = TermRows
    /\ pc = "tstart"
    /\ outcome = "running"
    /\ result = <<>>
    /\ text = <<>>
    /\ selection = 0
    /\ list = <<>>
    /\ ranked = <<>>
    /\ cache = <<>>
    /\ background_cache = <<>>
    /\ rendered = <<>>
    /\ exitEvent = "none"
    /\ scoredNow = {}
    /\ didRender = FALSE
    /\ np = NpInit(<<>>)
    /\ pending = {}

tableFrame ==
    <<items, height, resize, paired, raw, mouse, rows, result, selection,
      list, cache, background_cache, np, pending>>

\* event_loop: the render before the loop
TableFirstRender ==
    /\ pc = "tstart"
    /\ LET r == ListRender(ranked)
       IN  /\ ranked' = r.ranked
           /\ rendered' = r.rendered
    /\ didRender' = TRUE
    /\ pc' = "tloop"
    /\ UNCHANGED <<text, scoredNow, outcome, exitEvent>>
    /\ UNCHANGED tableFrame

\* one turn of the loop of event_loop that stays in it: the query becomes t,
\* handler.update runs when it changed, and self.render() ends the turn
TableStep(t, changed) ==
    /\ pc = "tloop"
    /\ Len(ranked) <= MaxHeap
    /\ text' = t
    /\ LET r == ListRender(IF changed THEN update(t) ELSE ranked)
       IN  /\ ranked' = r.ranked
           /\ rendered' = r.rendered
    /\ scoredNow' = IF changed THEN {t} ELSE scoredNow
    /\ didRender' = TRUE
    /\ UNCHANGED <<pc, outcome, exitEvent>>
    /\ UNCHANGED tableFrame

\* KeyCode::Char(c)
TableChar(c) == Len(text) < MaxLen /\ TableStep(Append(text, c), TRUE)

\* KeyCode::Delete | KeyCode::Backspace
TableBackspace == TableStep(Pop(text), TRUE)

\* Enter, Up, Down, a mouse event, any other event, or poll timing out:
\* nothing changes and the turn renders
TableRenderOnly == TableStep(text, FALSE)

\* KeyCode::Esc: break
TableEsc ==
    /\ pc = "tloop"
    /\ pc' = "tdone"
    /\ exitEvent' = "Esc"
    /\ outcome' = "ok"
    /\ UNCHANGED <<text, ranked, rendered, scoredNow, didRender>>
    /\ UNCHANGED tableFrame

\* a `?` of the turn returns: poll or read fails, or a write of the render
\* fails after k rows of List::render have popped and before the heap is
\* extended again
TableFail ==
    /\ pc = "tloop"
    /\ \E k \in 0..PopCount :
           LET p == PopRows(ranked, k, <<>>)
           IN  /\ ranked' = p.ranked
               /\ rendered' = p.rendered
    /\ pc' = "tdone"
    /\ exitEvent' = "Err"
    /\ outcome' = "err"
    /\ didRender' = FALSE
    /\ UNCHANGED <<text, scoredNow>>
    /\ UNCHANGED tableFrame

NextTable ==
    \/ TableFirstRender
    \/ \E c \in Chars : TableChar(c)
    \/ TableBackspace
    \/ TableRenderOnly
    \/ TableEsc
    \/ TableFail

SpecTable == InitTable /\ [][NextTable]_vars

\* ============================================================== properties
\* the items matching q, computed from the scorer alone
Matches(q) == {i \in 1..Len(items) : Len(fuzzy_indices(items[i], q)) = 1}

\* the scorer's score of item i for q
ScoreOf(i, q) == fuzzy_indices(items[i], q)[1][1]

\* the windows of non-empty queries: those stored in the cache and the one on
\* screen, each with its query
ProducedWindows ==
    {<<q, cache[q]>> : q \in {k \in DOMAIN cache : Len(k) > 0}}
    \cup (IF pc = "loop" /\ Len(text) > 0 THEN {<<text, rendered>>} ELSE {})

NonIncreasing(w) ==
    \A i \in 1..(Len(w) - 1) :
        /\ Len(w[i].score) = 1
        /\ Len(w[i + 1].score) = 1
        /\ w[i].score[1] >= w[i + 1].score[1]

\* C1: the rows of the visible window of every non-empty query are in
\* non-increasing score order.
C1_WindowSorted == \A pw \in ProducedWindows : NonIncreasing(pw[2])

\* the row Enter is specified to return: min(cursor, visible_count - 1) of the
\* window on screen, none when it is empty
ShownRow ==
    IF Len(rendered) = 0 THEN <<>>
    ELSE <<rendered[Min(selection + 1, Len(rendered))].idx>>

\* C2: Enter returns the item of the window on screen at row
\* min(cursor, visible_count - 1).
C2_EnterReturnsShownRow ==
    (pc = "cleanup" /\ exitEvent = "Enter") => result = ShownRow

Restored == ~raw /\ ~mouse /\ rows = TermRows

\* C3: whenever run has returned, on the error paths too, raw mode and mouse
\* capture are off and the viewport has its pre-session size.
C3_RestoredOnEveryExit == pc = "returned" => Restored

\* C4: the window of a non-empty query has min(window_height, matches) rows
\* and no matching item left out of it scores strictly higher than a row in it.
C4_WindowIsTopK ==
    \A pw \in ProducedWindows :
        LET q == pw[1]
            w == pw[2]
            shown == {w[k].idx : k \in 1..Len(w)}
        IN  /\ Len(w) = Min(height, Cardinality(Matches(q)))
            /\ \A j \in Matches(q) \ shown : \A k \in 1..Len(w) :
                   ScoreOf(j, q) <= w[k].score[1]

\* C5: in the window of a non-empty query, of two rows with equal score the
\* one with the shorter text comes first, and with equal score and length the
\* one earlier in the item store comes first.
C5_TieBreakLengthThenIndex ==
    \A pw \in ProducedWindows :
        LET w == pw[2]
        IN  \A i \in 1..Len(w) : \A j \in (i + 1)..Len(w) :
                w[i].score = w[j].score =>
                    \/ Len(items[w[i].idx]) < Len(items[w[j].idx])
                    \/ /\ Len(items[w[i].idx]) = Len(items[w[j].idx])
                       /\ w[i].idx < w[j].idx

\* C6: fed the same keys, the session with idle ticks draws the same rows
\* and returns the same value as the session without them.
C6_SameAsWithoutPrewarm ==
    (paired /\ pc \in {"loop", "cleanup"}) =>
        /\ DrawnRows(rendered) = DrawnRows(np.rendered)
        /\ result = np.result

\* the view of the empty query at session start
IdentityView == Take([i \in 1..Len(items) |-> NewRankedItem(i)], height)

\* C7: with the query empty again the view is the identity view of session
\* start: same items, same order, no row with a score or a styled position.
C7_BackToIdentityView ==
    (pc = "loop" /\ Len(text) = 0) =>
        /\ DrawnRows(rendered) = DrawnRows(IdentityView)
        /\ \A y \in 1..Len(rendered) : Len(rendered[y].score) = 0

\* C8: while the query is empty the window is the first
\* min(window_height, N) items of the store in store order, and the step that
\* rendered it scored nothing.
C8_EmptyQueryIdentityItems ==
    (pc = "loop" /\ Len(text) = 0) =>
        /\ Len(rendered) = Min(height, Len(items))
        /\ \A y \in 1..Len(rendered) : rendered[y].idx = y
        /\ didRender => scoredNow = {}

\* the query was typed, scored and removed again
C8_Witness ==
    /\ pc = "loop"
    /\ Len(text) = 0
    /\ didRender
    /\ Len(rendered) > 0
    /\ \E i \in 1..Len(list) : Len(list[i].score) = 1

\* C9: while the loop runs, an entry of the cache is never removed or changed
\* and its query is never handed to the scorer again.
C9_CacheEntryStable ==
    [][\A q \in DOMAIN cache :
          /\ pc' = "loop" => (q \in DOMAIN cache' /\ cache'[q] = cache[q])
          /\ q \notin scoredNow']_vars

\* C10: Esc ends the loop with no result, and when the clean up does not fail
\* run returns none with the terminal restored.
C10_EscCancelsAndRestores ==
    exitEvent = "Esc" =>
        /\ pc \in {"cleanup", "returned"}
        /\ result = <<>>
        /\ (pc = "returned" /\ outcome = "ok") => Restored

\* run returned Ok(None) after Esc from a session that had resized the
\* viewport
C10_Witness ==
    /\ exitEvent = "Esc"
    /\ pc = "returned"
    /\ outcome = "ok"
    /\ resize
    /\ result = <<>>

\* C11: Enter on a non-empty query that matches no item, so that the window
\* on screen is empty, returns no result.
C11_EnterOnEmptyWindowIsNone ==
    (pc = "cleanup" /\ exitEvent = "Enter" /\ Len(text) > 0
        /\ Matches(text) = {} /\ Len(rendered) = 0) => result = <<>>

\* C12: a ranking pass for a query leaves one result, content and order,
\* whatever the order in which the scoring tasks completed and whatever was
\* scored before it: the scores of the list and the heap are those of a pass
\* over a fresh list.
C12_RankingDeterministic ==
    (pc = "ranked" /\ scoredNow # {}) =>
        LET fresh == score_items(FreshList, text)
        IN  /\ \A i \in 1..Len(list) : list[i].score = fresh[i].score
            /\ ranked = rank_items(fresh)

\* a pass has ended over a list that a pass for another query had scored
\* before, with several matches
C12_Witness ==
    /\ pc = "ranked"
    /\ scoredNow = {text}
    /\ Len(ranked) >= 2
    /\ \E i \in 1..Len(list) : Len(list[i].score) = 0 /\ list[i].ind # {}

\* C13: while the loop runs the cursor is in [0, window_height); Up moves it
\* one row up and Down one row down, modulo window_height.
C13_CursorWraps ==
    [][pc' = "loop" =>
          /\ selection' \in 0..(height - 1)
          /\ KeyUp => selection' = (selection + height - 1) % height
          /\ KeyDown => selection' = (selection + 1) % height]_vars

\* the cursor is on the last row of a window of several rows
C13_Witness ==
    /\ pc = "loop"
    /\ height >= 2
    /\ selection = height - 1

\* the window of q: the first window_height rows of the heap of a ranking
\* pass for q
RankingWindow(q) == Take(rank_items(score_items(FreshList, q)), height)

\* C14: while the loop runs, the window on screen is the ranking window of the
\* current query, or the first items of the store when the query is empty;
\* the heap of another query is never what is shown.
C14_RenderedIsCurrentQuery ==
    pc = "loop" =>
        IF Len(text) = 0
        THEN /\ Len(rendered) = Min(height, Len(items))
             /\ \A y \in 1..Len(rendered) : rendered[y].idx = y
        ELSE rendered = RankingWindow(text)

\* the heap is not the ranking of the query on screen
C14_Witness ==
    /\ pc = "loop"
    /\ Len(text) > 0
    /\ didRender
    /\ Len(rendered) > 0
    /\ Take(ranked, height) # rendered

\* C15: a keystroke scoring pass is run only by an event that changed the
\* query, for the new query, and only when the new query was not cached.
C15_ScoringOnlyOnNewQuery ==
    [][(pc = "loop" /\ pc' = "loop" /\ didRender' /\ scoredNow' # {}) =>
          /\ text' # text
          /\ scoredNow' = {text'}
          /\ ~Cached(cache, text')]_vars

\* a keystroke has scored its new query
C15_Witness ==
    /\ pc = "loop"
    /\ didRender
    /\ Len(text) > 0
    /\ scoredNow = {text}
    /\ Len(background_cache) < Len(Alphabet)

\* C16: the cache never holds an entry keyed by the empty string.
C16_EmptyQueryNotCached == ~Cached(cache, <<>>)

\* C17: no scoring pass, by a keystroke or by a pre-warm step, is handed the
\* empty query.
C17_ScorerNeverGetsEmptyQuery == <<>> \notin scoredNow

\* an event has been handled with the query empty after a pre-warm step
C17_Witness ==
    /\ pc = "loop"
    /\ Len(text) = 0
    /\ didRender
    /\ Cached(cache, <<>>)
    /\ Len(background_cache) < Len(Alphabet)

\* C18: a pre-warm step scores and stores only a single-character query that
\* is not in the cache yet.
C18_PrewarmOnlyUncached ==
    [][IdleTick =>
          \A q \in scoredNow' : Len(q) = 1 /\ ~Cached(cache, q)]_vars

\* the number of the idle tick about to run, counted by the characters
\* already popped
TickNo == Len(Alphabet) - Len(background_cache) + 1

\* C19 as stated: the k-th idle tick pre-warms the k-th character counted
\* from the end of the alphabet.
C19_PrewarmFromEnd ==
    [][(IdleTick /\ TickNo <= Len(Alphabet)) =>
          scoredNow' = {<<Alphabet[Len(Alphabet) - TickNo + 1]>>}]_vars

\* C19 amended: the k-th idle tick pre-warms the k-th character counted from
\* the start of the alphabet, one computation per tick, and the ticks after
\* the last character compute nothing.
C19_PrewarmFromStart ==
    [][IdleTick =>
          /\ Cardinality(scoredNow') <= 1
          /\ TickNo <= Len(Alphabet) =>
                /\ scoredNow' = {<<Alphabet[TickNo]>>}
                /\ Len(background_cache') = Len(background_cache) - 1
          /\ TickNo > Len(Alphabet) =>
                scoredNow' = {} /\ cache' = cache]_vars

\* the second idle tick has run
C19_Witness ==
    /\ pc = "loop"
    /\ ~didRender
    /\ Len(background_cache) = Len(Alphabet) - 2
    /\ scoredNow = {<<Alphabet[2]>>}

\* C20: every turn of the loop that does not leave it calls render.
C20_RenderEveryTick ==
    [][(pc = "loop" /\ pc' = "loop") => didRender']_vars

\* C21: whenever a non-empty query has a match, the first row of its window is
\* a best entry: no matching item scores strictly higher, and no matching item
\* with that maximal score has a strictly shorter text.
C21_FirstRowIsBest ==
    \A pw \in ProducedWindows :
        LET q == pw[1]
            w == pw[2]
        IN  Matches(q) # {} =>
                /\ Len(w) >= 1
                /\ w[1].idx \in Matches(q)
                /\ \A j \in Matches(q) :
                       /\ ScoreOf(j, q) <= ScoreOf(w[1].idx, q)
                       /\ ScoreOf(j, q) = ScoreOf(w[1].idx, q) =>
                              Len(items[j]) >= Len(items[w[1].idx])

\* C22: in the shared-table variant, once Ranker::update has run for the
\* query, the table's ranked collection holds, after any number of renders,
\* exactly one entry for every row with a score for the query and no other.
C22_RenderKeepsRanked ==
    (pc = "tloop" /\ scoredNow = {text}) =>
        /\ Len(ranked) = Cardinality(Matches(text))
        /\ \A i \in Matches(text) :
               \E k \in 1..Len(ranked) :
                   ranked[k] = [index |-> i, score |-> ScoreOf(i, text)]

====
